---- MODULE Spec2Model ----
(***************************************************************************)
(* The websocket gateway of front-end-service: the lobby (authenticated,   *)
(* not yet role-assigned connections), the hall (role-assigned             *)
(* connections), the handlers that move a connection between them and the  *)
(* messages they send to the coordination service (phoenix) and to the     *)
(* clients.  Every action is one run-to-completion callback of the event   *)
(* loop.                                                                   *)
(***************************************************************************)
EXTENDS Integers, Sequences, FiniteSets, TLC

\* ------------------------------------------------------------------ bounds
\* Number of websocket connections the server accepts during a run.
NConn == 2

Conn == 1..NConn
\* `null` / `undefined` passed where a connection is expected.
NoWs == 0
\* `undefined` where a participant id or a session id is expected.
NoId == "none"
\* Result of a registry lookup that finds nothing.
NoEntry == << >>

Roles == {"game-master", "player"}

DEFAULT_PROFILE == "Unknown"
\* An absent element of the array loadProfiles resolves to.
NoProfile == "absent"

\* What the loadProfiles collaborator can settle to.
LoadResults ==
    { [settled |-> "rejected", isArray |-> FALSE, items |-> << >>],
      [settled |-> "resolved", isArray |-> FALSE, items |-> << >>],
      [settled |-> "resolved", isArray |-> TRUE,  items |-> << >>],
      [settled |-> "resolved", isArray |-> TRUE,  items |-> <<NoProfile>>],
      [settled |-> "resolved", isArray |-> TRUE,  items |-> <<"Alice">>] }

\* Client message kinds: MESSAGE_NAME.solution and anything else.
ClientKinds == {"solution", "other"}

\* ---------------------------------------------------------- the registries
\* lobby.js and hall.js: an entry is [ws, participantId, sessionId(, role)].
\* A lookup matches an entry by its connection, or by its identity
\* (participantId, sessionId); the role is stored, not compared.
RECURSIVE FirstMatch(_, _, _, _, _)
FirstMatch(reg, i, ws, pid, sid) ==
    IF i > Len(reg) THEN 0
    ELSE IF \/ (ws # NoWs /\ reg[i][1] = ws)
            \/ (pid # NoId /\ sid # NoId /\ reg[i][2] = pid /\ reg[i][3] = sid)
         THEN i
         ELSE FirstMatch(reg, i + 1, ws, pid, sid)

RegistryGet(reg, ws, pid, sid) ==
    LET i == FirstMatch(reg, 1, ws, pid, sid)
    IN  IF i = 0 THEN NoEntry ELSE reg[i]

RegistryRemove(reg, ws, pid, sid) ==
    LET i == FirstMatch(reg, 1, ws, pid, sid)
    IN  IF i = 0 THEN reg
        ELSE SubSeq(reg, 1, i - 1) \o SubSeq(reg, i + 1, Len(reg))

LobbyGet(l, ws, pid, sid) == RegistryGet(l, ws, pid, sid)
LobbyRemove(l, ws, pid, sid) == RegistryRemove(l, ws, pid, sid)
LobbyAdd(l, ws, pid, sid) == Append(l, <<ws, pid, sid>>)

HallGet(h, ws, pid, sid) == RegistryGet(h, ws, pid, sid)
HallRemove(h, ws, pid, sid) == RegistryRemove(h, ws, pid, sid)
HallAdd(h, ws, pid, sid, role) == Append(h, <<ws, pid, sid, role>>)

IsMaster(e) == e[4] = "game-master"
IsPlayer(e) == e[4] = "player"
GetMasters(h, sid) == SelectSeq(h, LAMBDA e : e[3] = sid /\ IsMaster(e))
GetPlayers(h, sid) == SelectSeq(h, LAMBDA e : e[3] = sid /\ IsPlayer(e))

\* ------------------------------------------------------------------- state
VARIABLES
    sock,       \* sock[c]: "idle" (not yet connected), "open", "closing"
                \* (ws.close called, close event not yet delivered), "closed"
    cookie,     \* cookie[c] = <<uid, sessionId>> of the upgrade request
    phase,      \* phase[c]: position of processNewConnection(c)
    listeners,  \* listeners[c]: the listeners attached to the connection
    lobby,      \* sequence of <<ws, participantId, sessionId>>
    hall,       \* sequence of <<ws, participantId, sessionId, role>>
    tasks,      \* tasks[<<pid, sid>>]: pending getProfiles().then(...) calls
    hist        \* hist[c]: what has happened to connection c so far (Hist0)

vars == <<sock, cookie, phase, listeners, lobby, hall, tasks, hist>>

\* The identities (participantId, sessionId) that occur: two participants of
\* one session, one of them also in a second session.
Identities == {<<"p1", "s1">>, <<"p2", "s1">>, <<"p2", "s2">>}
\* The cookies of an upgrade request: an identity, or one cookie missing.
Cookies == Identities \cup {<<NoId, "s1">>, <<"p1", NoId>>}

\* History of a connection: promoted to the hall; promoted while its identity
\* was active under another role; evicted (removed from a registry by the handler of another connection's
\* event); its close event was delivered while it was in the lobby / in the
\* hall / after its eviction; and the numbers of ws.close(4500) calls on it,
\* of sessionJoin requests sent for it, and of sessionLeave requests and
\* participantLeft broadcasts sent by its close handlers.
Hist0 == [promoted |-> FALSE, changedRole |-> FALSE, evicted |-> FALSE,
          closedInLobby |-> FALSE, closedInHall |-> FALSE, closedEvicted |-> FALSE,
          nForced |-> 0, nJoin |-> 0, nLeave |-> 0, nLeft |-> 0]

\* The part of the state a handler works on, threaded through its statements,
\* with what the handler has done so far: closes (ws.close(4500) calls),
\* phoenix (requests to the coordination service), ui (<<ws, message>>, the
\* ws.send calls), casts (<<sessionId, message>>, the sendToGameMasters
\* calls), threw (an uncaught exception ended the handler), log (the calls
\* on the registries and on the connections, <<call, ws>>, in the order the
\* handler made them).
\* failing: the connections whose ws.send throws during this handler.
World(failing) ==
    [lobby |-> lobby, hall |-> hall, listeners |-> listeners, sock |-> sock,
     tasks |-> tasks, closes |-> << >>, phoenix |-> << >>, ui |-> << >>,
     casts |-> << >>, threw |-> FALSE, failing |-> failing, log |-> << >>]

\* The connection of the entry a remove call takes out of a registry.
Removed(reg, ws, pid, sid) ==
    LET e == RegistryGet(reg, ws, pid, sid) IN IF e = NoEntry THEN NoWs ELSE e[1]

\* ------------------------------------------------ connection management
\* ClearConnection with a fault: only the close listeners are removed.
ClearConnectionCloseOnly(w, ws) ==
    [w EXCEPT !.listeners[ws] = {l \in @ : l[1] = "message"},
              !.log = Append(@, <<"removeAllListeners", ws>>)]

\* ws.removeAllListeners()
ClearConnection(w, ws) ==
    [w EXCEPT !.listeners[ws] = {}, !.log = Append(@, <<"removeAllListeners", ws>>)]

\* ws.close(4500): the transport closes; its close event is delivered later.
WsClose(w, ws) ==
    [w EXCEPT !.sock[ws] = IF @ = "open" THEN "closing" ELSE @,
              !.closes = Append(@, ws),
              !.log = Append(@, <<"close", ws>>)]

\* RejectConnection with a fault: the listeners are left attached.
RejectConnectionKeepListeners(w, ws) == WsClose(w, ws)

\* RejectConnection with a fault: the connection is closed before its
\* listeners are removed.
RejectConnectionCloseFirst(w, ws) == ClearConnection(WsClose(w, ws), ws)

RejectConnection(w, ws) == WsClose(ClearConnection(w, ws), ws)

\* ------------------------------------------------------- sending helpers
\* ws.send(message): a throwing send ends the handler that called it.
WsSend(w, ws, message) ==
    IF w.threw THEN w
    ELSE [w EXCEPT !.ui = Append(@, <<ws, message>>),
                   !.threw = (ws \in w.failing)]

\* entries.forEach(([ws]) => ws.send(message)), from entry i on
RECURSIVE ForEachSend(_, _, _, _)
ForEachSend(w, entries, i, message) ==
    IF i > Len(entries) THEN w
    ELSE ForEachSend(WsSend(w, entries[i][1], message), entries, i + 1, message)

SendToGameMasters(w, sessionId, message) ==
    IF w.threw THEN w
    ELSE ForEachSend([w EXCEPT !.casts = Append(@, <<sessionId, message>>)],
                     GetMasters(w.hall, sessionId), 1, message)

SendToPlayers(w, sessionId, message) ==
    ForEachSend(w, GetPlayers(w.hall, sessionId), 1, message)

SendToSession(w, sessionId, message) ==
    SendToPlayers(SendToGameMasters(w, sessionId, message), sessionId, message)

SendToPlayer(w, ws, message) == WsSend(w, ws, message)

\* phoenix.send(request)
PhoenixSend(w, request) ==
    IF w.threw THEN w ELSE [w EXCEPT !.phoenix = Append(@, request)]

\* -------------------------------------------------------- client messages
\* HandleClientMessage with a fault: every kind of message is forwarded.
HandleClientMessageAnyKind(w, ws, kind) ==
    LET participant == HallGet(w.hall, ws, NoId, NoId)
    IN  IF participant = NoEntry THEN w
        ELSE PhoenixSend(w, <<"participantInput", participant[3], participant[2]>>)

HandleClientMessage(w, ws, kind) ==
    LET participant == HallGet(w.hall, ws, NoId, NoId)
    IN  IF participant = NoEntry THEN w
        ELSE IF kind = "solution"
             THEN PhoenixSend(w, <<"participantInput", participant[3], participant[2]>>)
             ELSE w

\* ------------------------------------------------ sessions state management
RemoveFromLobby(w, ws, participantId, sessionId) ==
    RejectConnection(
        [w EXCEPT !.lobby = LobbyRemove(@, ws, participantId, sessionId),
                  !.log = Append(@, <<"lobby.remove",
                                      Removed(w.lobby, ws, participantId, sessionId)>>)],
        ws)

\* LobbyCloseHandler with a fault: participantLeft is broadcast, as for an
\* active connection.
LobbyCloseHandlerBroadcasts(w, ws, participantId, sessionId) ==
    SendToGameMasters(
        PhoenixSend(RemoveFromLobby(w, ws, NoId, NoId),
                    <<"sessionLeave", sessionId, participantId>>),
        sessionId, <<"participantLeft", sessionId, participantId>>)

\* the listener registered by addToLobby: ws.once('close', ...)
LobbyCloseHandler(w, ws, participantId, sessionId) ==
    PhoenixSend(RemoveFromLobby(w, ws, NoId, NoId),
                <<"sessionLeave", sessionId, participantId>>)

\* AddToLobby with a fault: the existing entry of the identity is not evicted.
AddToLobbyNoEvict(w, ws, participantId, sessionId) ==
    [w EXCEPT !.lobby = LobbyAdd(@, ws, participantId, sessionId),
              !.log = Append(@, <<"lobby.add", ws>>),
              !.listeners[ws] = @ \cup {<<"lobbyClose", participantId, sessionId>>}]

AddToLobby(w, ws, participantId, sessionId) ==
    LET participant == LobbyGet(w.lobby, ws, participantId, sessionId)
        w1 == IF participant # NoEntry
              THEN RemoveFromLobby(w, participant[1], participant[2], participant[3])
              ELSE w
    IN  [w1 EXCEPT !.lobby = LobbyAdd(@, ws, participantId, sessionId),
                   !.log = Append(@, <<"lobby.add", ws>>),
                   !.listeners[ws] = @ \cup {<<"lobbyClose", participantId, sessionId>>}]

\* RemoveFromHall with a fault: the entry is removed, the connection is not rejected.
RemoveFromHallNoReject(w, ws, participantId, sessionId) ==
    [w EXCEPT !.hall = HallRemove(@, ws, participantId, sessionId),
              !.log = Append(@, <<"hall.remove",
                                  Removed(w.hall, ws, participantId, sessionId)>>)]

RemoveFromHall(w, ws, participantId, sessionId) ==
    RejectConnection(
        [w EXCEPT !.hall = HallRemove(@, ws, participantId, sessionId),
                  !.log = Append(@, <<"hall.remove",
                                      Removed(w.hall, ws, participantId, sessionId)>>)],
        ws)

\* HallCloseHandler with a fault: the pending entry of the identity is
\* removed from the lobby as well.
HallCloseHandlerClearsIdentity(w, ws, participantId, sessionId) ==
    LET pending == LobbyGet(w.lobby, NoWs, participantId, sessionId)
        w0 == IF pending = NoEntry THEN w
              ELSE RemoveFromLobby(w, pending[1], pending[2], pending[3])
        w1 == RemoveFromHall(w0, ws, NoId, NoId)
        w2 == PhoenixSend(w1, <<"sessionLeave", sessionId, participantId>>)
    IN  SendToGameMasters(w2, sessionId, <<"participantLeft", sessionId, participantId>>)

\* the listener registered by addToHall: ws.once('close', ...)
HallCloseHandler(w, ws, participantId, sessionId) ==
    LET w1 == RemoveFromHall(w, ws, NoId, NoId)
        w2 == PhoenixSend(w1, <<"sessionLeave", sessionId, participantId>>)
    IN  SendToGameMasters(w2, sessionId, <<"participantLeft", sessionId, participantId>>)

\* AddToHall with a fault: the existing entry of the identity is not evicted.
AddToHallNoEvict(w, ws, participantId, sessionId, role) ==
    [w EXCEPT !.hall = HallAdd(@, ws, participantId, sessionId, role),
              !.log = Append(@, <<"hall.add", ws>>),
              !.listeners[ws] = @ \cup {<<"hallClose", participantId, sessionId>>,
                                        <<"message", NoId, NoId>>}]

AddToHall(w, ws, participantId, sessionId, role) ==
    LET participant == HallGet(w.hall, ws, participantId, sessionId)
        w1 == IF participant # NoEntry
              THEN RemoveFromHall(w, participant[1], participant[2], participant[3])
              ELSE w
    IN  [w1 EXCEPT !.hall = HallAdd(@, ws, participantId, sessionId, role),
                   !.log = Append(@, <<"hall.add", ws>>),
                   !.listeners[ws] = @ \cup {<<"hallClose", participantId, sessionId>>,
                                             <<"message", NoId, NoId>>}]

\* getProfiles(participantIds), once loadProfiles has settled to `result`:
\* the sequence of display names the returned promise resolves to.
GetProfiles(n, result) ==
    IF result.settled = "rejected" \/ ~result.isArray
    THEN [i \in 1..n |-> DEFAULT_PROFILE]
    ELSE [i \in 1..Len(result.items) |->
            IF result.items[i] = NoProfile THEN DEFAULT_PROFILE ELSE result.items[i]]

\* ------------------------------------------------------ message handlers
\* ParticipantIdentified with a fault: the lobby's close listener is not cleared
\* before the connection is added to the hall.
ParticipantIdentifiedNoClear(w, participantId, sessionId, role) ==
    LET participant == LobbyGet(w.lobby, NoWs, participantId, sessionId)
    IN  IF participant = NoEntry THEN w
        ELSE LET w1 == [w EXCEPT !.lobby = LobbyRemove(@, participant[1],
                                                       participant[2], participant[3]),
                                 !.log = Append(@, <<"lobby.remove", participant[1]>>)]
                 w3 == AddToHall(w1, participant[1], participant[2], participant[3], role)
             IN  [w3 EXCEPT !.tasks[<<participantId, sessionId>>] = @ + 1]

\* ParticipantIdentified with a fault: the lobby entry is not removed.
ParticipantIdentifiedKeepLobby(w, participantId, sessionId, role) ==
    LET participant == LobbyGet(w.lobby, NoWs, participantId, sessionId)
    IN  IF participant = NoEntry THEN w
        ELSE LET w2 == ClearConnection(w, participant[1])
                 w3 == AddToHall(w2, participant[1], participant[2], participant[3], role)
             IN  [w3 EXCEPT !.tasks[<<participantId, sessionId>>] = @ + 1]

\* ParticipantIdentified with a fault: the connection is added to the hall
\* before its lobby entry is removed.
ParticipantIdentifiedAddFirst(w, participantId, sessionId, role) ==
    LET participant == LobbyGet(w.lobby, NoWs, participantId, sessionId)
    IN  IF participant = NoEntry THEN w
        ELSE LET w1 == ClearConnection(w, participant[1])
                 w2 == AddToHall(w1, participant[1], participant[2], participant[3], role)
                 w3 == [w2 EXCEPT !.lobby = LobbyRemove(@, participant[1],
                                                       participant[2], participant[3]),
                                 !.log = Append(@, <<"lobby.remove", participant[1]>>)]
             IN  [w3 EXCEPT !.tasks[<<participantId, sessionId>>] = @ + 1]

\* ParticipantIdentified with a fault: the profile lookup is started for an
\* unknown participant too.
ParticipantIdentifiedAlwaysLookup(w, participantId, sessionId, role) ==
    LET participant == LobbyGet(w.lobby, NoWs, participantId, sessionId)
        w3 == IF participant = NoEntry THEN w
              ELSE AddToHall(
                       ClearConnection(
                           [w EXCEPT !.lobby = LobbyRemove(@, participant[1],
                                                           participant[2], participant[3]),
                                     !.log = Append(@, <<"lobby.remove", participant[1]>>)],
                           participant[1]),
                       participant[1], participant[2], participant[3], role)
    IN  [w3 EXCEPT !.tasks[<<participantId, sessionId>>] = @ + 1]

\* participantIdentified up to the call of getProfiles
ParticipantIdentified(w, participantId, sessionId, role) ==
    LET participant == LobbyGet(w.lobby, NoWs, participantId, sessionId)
    IN  IF participant = NoEntry THEN w
        ELSE LET w1 == [w EXCEPT !.lobby = LobbyRemove(@, participant[1],
                                                       participant[2], participant[3]),
                                 !.log = Append(@, <<"lobby.remove", participant[1]>>)]
                 w2 == ClearConnection(w1, participant[1])
                 w3 == AddToHall(w2, participant[1], participant[2], participant[3], role)
             IN  [w3 EXCEPT !.tasks[<<participantId, sessionId>>] = @ + 1]

\* the continuation getProfiles([participantId]).then(([profile]) => ...):
\* profile.displayName of an undefined profile is a TypeError.
ProfilesLoaded(w, participantId, sessionId, profiles) ==
    IF Len(profiles) = 0
    THEN [w EXCEPT !.threw = TRUE]
    ELSE SendToGameMasters(w, sessionId,
             <<"participantJoined", sessionId, participantId, profiles[1]>>)

\* SolutionEvaluated with a fault: the detailed result goes to every player of
\* the session.
SolutionEvaluatedToPlayers(w, participantId, sessionId) ==
    LET participant == HallGet(w.hall, NoWs, participantId, sessionId)
    IN  IF participant = NoEntry THEN w
        ELSE SendToGameMasters(
                 SendToPlayers(w, sessionId, <<"solutionEvaluated", sessionId, participantId>>),
                 sessionId, <<"participantSolution", sessionId, participantId>>)

SolutionEvaluated(w, participantId, sessionId) ==
    LET participant == HallGet(w.hall, NoWs, participantId, sessionId)
    IN  IF participant = NoEntry THEN w
        ELSE SendToGameMasters(
                 SendToPlayer(w, participant[1], <<"solutionEvaluated", sessionId, participantId>>),
                 sessionId, <<"participantSolution", sessionId, participantId>>)

\* verifyAuth: the promise resolves iff both cookies are present
AuthOk(ck) == ck[1] # NoId /\ ck[2] # NoId

\* processNewConnection once verifyAuth has settled.  The catch callback's
\* parameter `error` shadows the logger: error(...) calls the rejection
\* reason (undefined), a TypeError, so rejectConnection(ws) is never reached.
ProcessNewConnection(w, ws, ck) ==
    IF AuthOk(ck)
    THEN PhoenixSend(AddToLobby(w, ws, ck[1], ck[2]), <<"sessionJoin", ck[2], ck[1]>>)
    ELSE [w EXCEPT !.threw = TRUE]

\* emit('close') on ws: every close listener attached when the event is
\* emitted runs, in registration order.
EmitClose(w, ws) ==
    LET ls == w.listeners[ws]
        lobbyLs == {l \in ls : l[1] = "lobbyClose"}
        hallLs == {l \in ls : l[1] = "hallClose"}
        w0 == [w EXCEPT !.listeners[ws] = {l \in @ : l[1] = "message"},
                        !.sock[ws] = "closed"]
        w1 == IF lobbyLs = {} THEN w0
              ELSE LET l == CHOOSE l \in lobbyLs : TRUE
                   IN  LobbyCloseHandler(w0, ws, l[2], l[3])
    IN  IF hallLs = {} THEN w1
        ELSE LET l == CHOOSE l \in hallLs : TRUE
             IN  HallCloseHandler(w1, ws, l[2], l[3])

\* ----------------------------------------------------------------- actions
Range(q) == {q[i] : i \in DOMAIN q}
Count(q, x) == Cardinality({i \in DOMAIN q : q[i] = x})
CountName(q, name) == Cardinality({i \in DOMAIN q : q[i][1] = name})
CountCast(q, name) == Cardinality({i \in DOMAIN q : q[i][2][1] = name})
WsOf(reg) == {reg[i][1] : i \in DOMAIN reg}
IdOf(e) == <<e[2], e[3]>>
EntriesOf(reg, id) == {i \in DOMAIN reg : IdOf(reg[i]) = id}

Init ==
    /\ sock = [c \in Conn |-> "idle"]
    /\ cookie = [c \in Conn |-> <<NoId, NoId>>]
    /\ phase = [c \in Conn |-> "none"]
    /\ listeners = [c \in Conn |-> {}]
    /\ lobby = << >>
    /\ hall = << >>
    /\ tasks = [id \in Identities |-> 0]
    /\ hist = [c \in Conn |-> Hist0]

\* The world a handler ends with becomes the next state; what the handler did
\* is added to the history of the connections.  c is the connection whose
\* event was handled (NoWs for an event of the coordination service, which
\* adds nothing to the histories when it moved and closed no connection).
Commit(w, c) ==
    /\ sock' = w.sock
    /\ listeners' = w.listeners
    /\ lobby' = w.lobby
    /\ hall' = w.hall
    /\ tasks' = w.tasks
    /\ hist' = IF c = NoWs /\ w.closes = << >> /\ w.lobby = lobby /\ w.hall = hall
               THEN hist
               ELSE [x \in Conn |->
         LET out == \/ (x \in WsOf(lobby) /\ x \notin WsOf(w.lobby) /\ x \notin WsOf(w.hall))
                    \/ (x \in WsOf(hall) /\ x \notin WsOf(w.hall))
             closed == x = c /\ sock[x] # "closed" /\ w.sock[x] = "closed"
             entry == RegistryGet(w.hall, x, NoId, NoId)
         IN  [hist[x] EXCEPT
                !.promoted = @ \/ (x \in WsOf(w.hall) /\ x \notin WsOf(hall)),
                !.changedRole = @ \/ (/\ x \in WsOf(w.hall) /\ x \notin WsOf(hall)
                                       /\ \E i \in DOMAIN hall :
                                             /\ IdOf(hall[i]) = IdOf(entry)
                                             /\ hall[i][4] # entry[4]),
                !.evicted = @ \/ (x # c /\ out),
                !.closedInLobby = @ \/ (closed /\ x \in WsOf(lobby)),
                !.closedInHall = @ \/ (closed /\ x \in WsOf(hall)),
                !.closedEvicted = @ \/ (closed /\ hist[x].evicted),
                !.nForced = @ + Count(w.closes, x),
                !.nJoin = @ + (IF x = c THEN CountName(w.phoenix, "sessionJoin") ELSE 0),
                !.nLeave = @ + (IF x = c THEN CountName(w.phoenix, "sessionLeave") ELSE 0),
                !.nLeft = @ + (IF x = c THEN CountCast(w.casts, "participantLeft") ELSE 0)]]

\* The world each handler ends with, run in the current state.
AuthWorld(c) == ProcessNewConnection(World({}), c, cookie[c])
CloseWorld(c, failing) == EmitClose(World(failing), c)
RoleWorld(pid, sid, role) == ParticipantIdentified(World({}), pid, sid, role)
ProfilesWorld(id, result, failing) ==
    ProfilesLoaded([World(failing) EXCEPT !.tasks[id] = @ - 1],
                   id[1], id[2], GetProfiles(1, result))
EvaluationWorld(pid, sid, failing) == SolutionEvaluated(World(failing), pid, sid)
MessageWorld(c, kind) == HandleClientMessage(World({}), c, kind)

\* When each event can occur.
AuthPending(c) == phase[c] = "auth"
CanClose(c) == sock[c] \in {"open", "closing"}
LookupPending(id) == tasks[id] > 0
CanReceive(c) == sock[c] = "open" /\ <<"message", NoId, NoId>> \in listeners[c]

\* wss.on('connection', processNewConnection): verifyAuth(ws) is pending.
\* Connection handles are opaque, so they are handed out in order.
Connection(c, ck) ==
    /\ sock[c] = "idle"
    /\ \A d \in Conn : d < c => sock[d] # "idle"
    /\ Commit([World({}) EXCEPT !.sock[c] = "open"], c)
    /\ cookie' = [cookie EXCEPT ![c] = ck]
    /\ phase' = [phase EXCEPT ![c] = "auth"]

\* verifyAuth(ws) settles: the then / catch callback of processNewConnection.
AuthSettled(c) ==
    /\ AuthPending(c)
    /\ Commit(AuthWorld(c), c)
    /\ phase' = [phase EXCEPT ![c] = "done"]
    /\ UNCHANGED cookie

\* The transport delivers the close event of connection c.
CloseEvent(c, failing) ==
    /\ CanClose(c)
    /\ Commit(CloseWorld(c, failing), c)
    /\ UNCHANGED <<cookie, phase>>

\* phoenix 'message' with MESSAGE_NAME.participantJoined (role assigned)
RoleAssigned(pid, sid, role) ==
    /\ Commit(RoleWorld(pid, sid, role), NoWs)
    /\ UNCHANGED <<cookie, phase>>

\* loadProfiles settles for one pending getProfiles([participantId]) call
ProfilesSettled(id, result, failing) ==
    /\ LookupPending(id)
    /\ Commit(ProfilesWorld(id, result, failing), NoWs)
    /\ UNCHANGED <<cookie, phase>>

\* phoenix 'message' with MESSAGE_NAME.solutionEvaluated
EvaluationResult(pid, sid, failing) ==
    /\ Commit(EvaluationWorld(pid, sid, failing), NoWs)
    /\ UNCHANGED <<cookie, phase>>

\* ws 'message': onClientMessage, attached by addToHall
ClientMessage(c, kind) ==
    /\ CanReceive(c)
    /\ Commit(MessageWorld(c, kind), c)
    /\ UNCHANGED <<cookie, phase>>

\* The sets of connections whose ws.send throws during one handler.  The first
\* throwing send ends the handler, so one throwing connection per handler
\* produces every outcome.
Failing == {{}} \cup {{c} : c \in WsOf(hall)}

\* The handler runs that can be the next step: the event (op, the connection
\* or the identity it is about) and the world the handler ends with.
Run(op, ws, id, w) == [op |-> op, ws |-> ws, id |-> id, w |-> w]
CloseSteps ==
    {Run("close", x[1], cookie[x[1]], CloseWorld(x[1], x[2])) :
        x \in {c \in Conn : CanClose(c)} \X Failing}
Steps ==
    {Run("auth", c, cookie[c], AuthWorld(c)) : c \in {c \in Conn : AuthPending(c)}}
    \cup CloseSteps
    \cup {Run("role", NoWs, x[1], RoleWorld(x[1][1], x[1][2], x[2])) :
             x \in Identities \X Roles}
    \cup {Run("profiles", NoWs, x[1], ProfilesWorld(x[1], x[2], x[3])) :
             x \in {id \in Identities : LookupPending(id)} \X LoadResults \X Failing}
    \cup {Run("evaluation", NoWs, x[1], EvaluationWorld(x[1][1], x[1][2], x[2])) :
             x \in Identities \X Failing}
    \cup {Run("message", x[1], cookie[x[1]], MessageWorld(x[1], x[2])) :
             x \in {c \in Conn : CanReceive(c)} \X ClientKinds}

Next ==
    \/ \E c \in Conn, ck \in Cookies : Connection(c, ck)
    \/ \E c \in Conn : AuthSettled(c)
    \/ \E c \in Conn, failing \in Failing : CloseEvent(c, failing)
    \/ \E id \in Identities, role \in Roles : RoleAssigned(id[1], id[2], role)
    \/ \E id \in Identities, result \in LoadResults, failing \in Failing :
          ProfilesSettled(id, result, failing)
    \/ \E id \in Identities, failing \in Failing : EvaluationResult(id[1], id[2], failing)
    \/ \E c \in Conn, kind \in ClientKinds : ClientMessage(c, kind)

Spec == Init /\ [][Next]_vars

\* ------------------------------------------------------------------ claims
ConnsOf(reg, id) == {reg[i][1] : i \in EntriesOf(reg, id)}
NumOf(reg, id) == Cardinality(EntriesOf(reg, id))

\* C1 (as stated): in every reachable state, for each identity
\* (participantId, sessionId), the lobby and the hall together hold at most
\* one entry.
C1_AtMostOneAcrossRegistries ==
    \A id \in Identities : NumOf(lobby, id) + NumOf(hall, id) <= 1

\* C1 (amended): in every reachable state, for each identity, the lobby holds
\* at most one entry and the hall holds at most one entry; an identity can be
\* pending in the lobby while it is active in the hall, under another connection.
C1_AtMostOnePerRegistry ==
    \A id \in Identities :
        /\ NumOf(lobby, id) <= 1
        /\ NumOf(hall, id) <= 1
        /\ ConnsOf(lobby, id) \cap ConnsOf(hall, id) = {}

\* C1 witness: an identity is pending under one connection and active under another.
C1_PendingWhileActive ==
    \E id \in Identities : NumOf(lobby, id) = 1 /\ NumOf(hall, id) = 1

\* What a replacement step must do, for the registry `reg` (before) / `reg2`
\* (after), the identity `id` and the admitted connection `new`.
Replaced(reg, reg2, id, new) ==
    LET olds == ConnsOf(reg, id)
    IN  /\ Cardinality(olds) = 1
        /\ new \notin olds
        /\ \A x \in Conn :
              /\ hist'[x].nForced = hist[x].nForced + (IF x \in olds THEN 1 ELSE 0)
              /\ hist'[x].nLeave = hist[x].nLeave
              /\ hist'[x].nLeft = hist[x].nLeft
        /\ NumOf(reg2, id) = 1
        /\ ConnsOf(reg2, id) = {new}

C2_LobbyStep ==
    \A c \in Conn :
        (AuthPending(c) /\ AuthOk(cookie[c]) /\ NumOf(lobby, cookie[c]) > 0 /\ AuthSettled(c))
            => Replaced(lobby, lobby', cookie[c], c)

C2_HallStep ==
    \A id \in Identities, role \in Roles :
        (/\ NumOf(lobby, id) > 0
         /\ NumOf(hall, id) > 0
         /\ RoleAssigned(id[1], id[2], role))
            => \E new \in ConnsOf(lobby, id) : Replaced(hall, hall', id, new)

\* An evicted connection was force-closed once and its handlers never report a leave.
C2_Evicted ==
    \A c \in Conn :
        hist[c].evicted =>
            hist[c].nForced = 1 /\ hist[c].nLeave = 0 /\ hist[c].nLeft = 0

\* C2: whenever addToLobby (resp. addToHall) admits a connection under an
\* identity that already has an entry in that registry, the step calls
\* ws.close(4500) exactly once, on the old connection; afterwards the registry
\* holds exactly one entry for the identity, with the new connection; and no
\* sessionLeave and no participantLeft is sent for the replacement, neither in
\* that step nor later by the evicted connection's handlers.
C2_Replacement ==
    /\ []C2_Evicted
    /\ [][C2_LobbyStep /\ C2_HallStep]_vars

\* C2 witness: a connection that was active in the hall has been evicted by a
\* newer connection of its identity, which now holds the hall entry.
C2_EvictedFromHall ==
    \E c \in Conn :
        /\ hist[c].evicted /\ hist[c].promoted
        /\ \E d \in Conn \ {c} : d \in ConnsOf(hall, cookie[c])

\* The messages a handler run sent about an identity.
LeaveRequests(w, id) ==
    Cardinality({i \in DOMAIN w.phoenix : w.phoenix[i] = <<"sessionLeave", id[2], id[1]>>})
LeftCasts(w, id) ==
    Cardinality({i \in DOMAIN w.casts :
                    w.casts[i][2] = <<"participantLeft", id[2], id[1]>>})
JoinedCasts(w, id) ==
    Cardinality({i \in DOMAIN w.casts :
                    /\ w.casts[i][2][1] = "participantJoined"
                    /\ w.casts[i][2][2] = id[2] /\ w.casts[i][2][3] = id[1]})

\* The swap of identity id is under way: connection a holds the hall entry and
\* has not closed, connection b has authenticated and holds the lobby entry.
SwapWindow(id, a, b) ==
    /\ a \in ConnsOf(hall, id) /\ sock[a] = "open"
    /\ b \in ConnsOf(lobby, id)

\* The promotion that ends the swap: the old connection is closed, once, and
\* detached; the new one holds the only entry; nothing is sent.
SwapEnd(w, id, a, b) ==
    /\ w.closes = <<a>>
    /\ w.listeners[a] = {}
    /\ NumOf(w.hall, id) = 1 /\ ConnsOf(w.hall, id) = {b}
    /\ NumOf(w.lobby, id) = 0
    /\ w.phoenix = << >> /\ w.casts = << >> /\ w.ui = << >>

\* C3 (as stated): while connection C2 is pending under an identity that C1
\* holds in the hall, no step other than the close of C1 or C2 sends a
\* sessionLeave, a participantLeft or a participantJoined for the identity,
\* and the promotion ends with C1 forcibly closed and C2 the only hall entry.
C3_NoLeaveNoJoinedInSwap ==
    \A id \in Identities, a \in Conn, b \in Conn :
        SwapWindow(id, a, b) =>
            \A st \in Steps :
                /\ (st.op = "role" /\ st.id = id) => SwapEnd(st.w, id, a, b)
                /\ ~(st.op = "close" /\ st.ws \in {a, b}) =>
                      /\ LeaveRequests(st.w, id) = 0
                      /\ LeftCasts(st.w, id) = 0
                      /\ JoinedCasts(st.w, id) = 0

\* C3 (amended): while C2 is pending under an identity that C1 holds in the
\* hall, a sessionLeave or participantLeft for the identity is sent only by
\* the close of C1 or of C2, and a participantJoined only by the settling of
\* a profile lookup that an earlier promotion of the identity left pending;
\* the promotion of C2 closes C1, once, leaves C2 the only entry of the
\* identity and sends nothing itself.
C3_SwapIsSilent ==
    \A id \in Identities, a \in Conn, b \in Conn :
        SwapWindow(id, a, b) =>
            \A st \in Steps :
                /\ (st.op = "role" /\ st.id = id) => SwapEnd(st.w, id, a, b)
                /\ ~(st.op = "close" /\ st.ws \in {a, b}) =>
                      /\ LeaveRequests(st.w, id) = 0
                      /\ LeftCasts(st.w, id) = 0
                /\ JoinedCasts(st.w, id) > 0 =>
                      st.op = "profiles" /\ st.id = id /\ tasks[id] > 0

\* C3 witness: the swap has happened: C1 was active, was evicted while open
\* (its close event is still to come), and C2 holds the hall entry.
C3_SwapDone ==
    \E id \in Identities, a \in Conn, b \in Conn :
        /\ a # b /\ cookie[a] = id /\ cookie[b] = id
        /\ hist[a].promoted /\ hist[a].evicted /\ sock[a] = "closing"
        /\ ConnsOf(hall, id) = {b} /\ NumOf(lobby, id) = 0
        /\ hist[b].nJoin = 1 /\ hist[b].nForced = 0

\* C4: when the authentication of a new connection is rejected,
\* processNewConnection forcibly closes the connection (listeners cleared,
\* ws.close(4500) called), creates no lobby or hall entry for it and sends no
\* sessionJoin.
C4_RejectedIsClosed ==
    \A c \in Conn :
        (phase[c] = "done" /\ ~AuthOk(cookie[c])) =>
            /\ hist[c].nForced = 1
            /\ listeners[c] = {}
            /\ c \notin WsOf(lobby) \cup WsOf(hall)
            /\ hist[c].nJoin = 0

\* C5: a connection that was promoted to the hall and then closes, without
\* having been evicted, sends exactly one sessionLeave and makes exactly one
\* participantLeft broadcast, both for its own identity; no connection ever
\* sends a second one.
C5_OneLeaveOnClose ==
    /\ \A c \in Conn :
          /\ hist[c].nLeave <= 1 /\ hist[c].nLeft <= 1
          /\ hist[c].closedInHall => hist[c].nLeave = 1 /\ hist[c].nLeft = 1
    /\ \A st \in CloseSteps :
          (st.ws \in WsOf(hall) /\ sock[st.ws] = "open") =>
              /\ st.w.phoenix = <<<<"sessionLeave", st.id[2], st.id[1]>>>>
              /\ st.w.casts = <<<<st.id[2], <<"participantLeft", st.id[2], st.id[1]>>>>>>

\* C5 witness: a promoted connection has closed while it held its hall entry.
C5_ClosedAfterPromotion ==
    \E c \in Conn :
        /\ hist[c].promoted /\ hist[c].closedInHall /\ ~hist[c].evicted
        /\ sock[c] = "closed" /\ hist[c].nLeave = 1

\* C6: the close event of a connection that has been evicted changes neither
\* the lobby nor the hall and sends no sessionLeave and no participantLeft
\* (it sends nothing and closes nothing).
C6_EvictedCloseIsNoop ==
    /\ \A st \in CloseSteps :
          hist[st.ws].evicted =>
              /\ st.w.lobby = lobby /\ st.w.hall = hall
              /\ st.w.phoenix = << >> /\ st.w.casts = << >> /\ st.w.ui = << >>
              /\ st.w.closes = << >>
    /\ \A c \in Conn :
          hist[c].closedEvicted => hist[c].nLeave = 0 /\ hist[c].nLeft = 0

\* C6 witness: the close event of an evicted connection has been delivered,
\* while its identity is still registered under the newer connection.
C6_EvictedHasClosed ==
    \E c \in Conn :
        /\ hist[c].closedEvicted /\ sock[c] = "closed"
        /\ NumOf(lobby, cookie[c]) + NumOf(hall, cookie[c]) > 0

\* The connections a handler run called ws.send(message) on.
SentTo(w, message) == {w.ui[i][1] : i \in {j \in DOMAIN w.ui : w.ui[j][2] = message}}
MastersOf(h, sid) == WsOf(GetMasters(h, sid))
PlayersOf(h, sid) == WsOf(GetPlayers(h, sid))

\* C7: every sendToGameMasters call of a handler calls ws.send on every
\* game-master of the session, also when ws.send fails on one of them.
C7_BroadcastReachesAll ==
    \A st \in Steps :
        \A i \in DOMAIN st.w.casts :
            MastersOf(st.w.hall, st.w.casts[i][1]) \subseteq SentTo(st.w, st.w.casts[i][2])

\* C8: whatever loadProfiles settles to, the continuation of
\* participantIdentified broadcasts participantJoined to the game-masters
\* (with the default display name when the result is rejected or malformed)
\* and ends without an error other than a failing ws.send.
C8_JoinedAlwaysBroadcast ==
    \A id \in Identities, result \in LoadResults, failing \in Failing :
        LookupPending(id) =>
            LET w == ProfilesWorld(id, result, failing)
                name == IF result.settled = "resolved" /\ result.isArray
                           /\ Len(result.items) = 1 /\ result.items[1] # NoProfile
                        THEN result.items[1] ELSE DEFAULT_PROFILE
            IN  /\ w.casts = <<<<id[2], <<"participantJoined", id[2], id[1], name>>>>>>
                /\ w.threw => \E i \in DOMAIN w.ui : w.ui[i][1] \in failing

\* C9: for an evaluation-result event for identity (p, s): without a hall
\* entry for (p, s) nothing is sent; otherwise the detailed solutionEvaluated
\* message is sent to exactly one connection, the one of the hall entry of
\* (p, s), and the participantSolution summary only to game-masters of s.
C9_EvaluationRouting ==
    \A id \in Identities, failing \in Failing :
        LET w == EvaluationWorld(id[1], id[2], failing)
            detail == <<"solutionEvaluated", id[2], id[1]>>
            summary == <<"participantSolution", id[2], id[1]>>
        IN  /\ \A i \in DOMAIN w.ui : w.ui[i][2] \in {detail, summary}
            /\ NumOf(hall, id) = 0 => w.ui = << >>
            /\ NumOf(hall, id) > 0 =>
                  /\ SentTo(w, detail) = ConnsOf(hall, id)
                  /\ Cardinality({i \in DOMAIN w.ui : w.ui[i][2] = detail}) = 1
            /\ SentTo(w, summary) \subseteq MastersOf(hall, id[2])
            /\ (NumOf(hall, id) > 0 /\ failing = {}) =>
                  SentTo(w, summary) = MastersOf(hall, id[2])

\* C9 witness: a player and a game-master of one session are active, and the
\* evaluation of the player's solution sends the detail to the player and the
\* summary to the game-master.
C9_PlayerAndMaster ==
    \E id \in Identities, a \in Conn, b \in Conn :
        /\ a # b /\ ConnsOf(hall, id) = {a}
        /\ a \in PlayersOf(hall, id[2]) /\ b \in MastersOf(hall, id[2])
        /\ EvaluationWorld(id[1], id[2], {}).ui =
              << <<a, <<"solutionEvaluated", id[2], id[1]>>>>,
                 <<b, <<"participantSolution", id[2], id[1]>>>> >>

Before(log, a, b) ==
    /\ \E i \in DOMAIN log : log[i] = a
    /\ \E j \in DOMAIN log : log[j] = b
    /\ \A i \in DOMAIN log, j \in DOMAIN log : (log[i] = a /\ log[j] = b) => i < j

\* C11: in every reachable state no connection is held by both registries,
\* and the promotion of a pending connection removes its lobby entry before
\* it inserts its hall entry, ending with the connection in the hall only.
C11_OneRegistryPerConnection ==
    /\ WsOf(lobby) \cap WsOf(hall) = {}
    /\ \A id \in Identities, role \in Roles :
          NumOf(lobby, id) > 0 =>
              LET w == RoleWorld(id[1], id[2], role)
              IN  \A c \in ConnsOf(lobby, id) :
                      /\ Before(w.log, <<"lobby.remove", c>>, <<"hall.add", c>>)
                      /\ c \notin WsOf(w.lobby) /\ c \in WsOf(w.hall)

\* C11 witness: a pending connection has been promoted and is now held by
\* the hall and not by the lobby, while the lobby holds another connection.
C11_PromotedLeftLobby ==
    \E c \in Conn :
        /\ hist[c].promoted /\ c \in WsOf(hall) /\ c \notin WsOf(lobby)
        /\ WsOf(lobby) # {}

\* C12: a 'solution' message from a connection that has a hall entry produces
\* exactly one participantInput request, carrying the sessionId and the
\* participantId of that hall entry (those the connection authenticated
\* with); a message from a connection without a hall entry, or of another
\* kind, produces no request; nothing else is sent or changed.
C12_SolutionForwarded ==
    \A c \in Conn, kind \in ClientKinds :
        LET w == MessageWorld(c, kind)
            e == HallGet(hall, c, NoId, NoId)
        IN  /\ (c \in WsOf(hall) /\ kind = "solution") =>
                  /\ w.phoenix = << <<"participantInput", e[3], e[2]>> >>
                  /\ <<e[2], e[3]>> = cookie[c]
            /\ (c \notin WsOf(hall) \/ kind # "solution") => w.phoenix = << >>
            /\ w.ui = << >> /\ w.closes = << >>
            /\ w.lobby = lobby /\ w.hall = hall /\ w.listeners = listeners

\* C12 witness: an active connection can receive a 'solution' message, which
\* is forwarded under its own identity, while another connection of the same
\* session is active too.
C12_ActiveCanSend ==
    \E c \in Conn, d \in Conn :
        /\ c # d /\ CanReceive(c) /\ c \in WsOf(hall) /\ d \in WsOf(hall)
        /\ cookie[c][2] = cookie[d][2]
        /\ MessageWorld(c, "solution").phoenix =
              << <<"participantInput", cookie[c][2], cookie[c][1]>> >>

\* The eviction of connection old from a registry, in the order removal,
\* detachment of its listeners, forced close, all before the insertion of new.
EvictedBeforeInsert(log, reg, old, new) ==
    /\ Before(log, <<reg \o ".remove", old>>, <<"removeAllListeners", old>>)
    /\ Before(log, <<"removeAllListeners", old>>, <<"close", old>>)
    /\ Before(log, <<"close", old>>, <<reg \o ".add", new>>)

\* C13: in every replacement, in the lobby by addToLobby and in the hall by
\* addToHall, the old entry is removed, then the old connection's listeners
\* are detached, then it is force-closed, and only then is the replacing
\* entry inserted, all within the one handler run; no reachable state has two
\* entries of an identity in one registry.
C13_EvictionBeforeInsert ==
    /\ \A id \in Identities : NumOf(lobby, id) < 2 /\ NumOf(hall, id) < 2
    /\ \A c \in Conn :
          (AuthPending(c) /\ AuthOk(cookie[c]) /\ NumOf(lobby, cookie[c]) > 0) =>
              LET w == AuthWorld(c)
              IN  /\ \A old \in ConnsOf(lobby, cookie[c]) :
                        EvictedBeforeInsert(w.log, "lobby", old, c)
                  /\ ConnsOf(w.lobby, cookie[c]) = {c} /\ NumOf(w.lobby, cookie[c]) = 1
    /\ \A id \in Identities, role \in Roles :
          (NumOf(lobby, id) > 0 /\ NumOf(hall, id) > 0) =>
              LET w == RoleWorld(id[1], id[2], role)
              IN  \A old \in ConnsOf(hall, id), new \in ConnsOf(lobby, id) :
                      /\ EvictedBeforeInsert(w.log, "hall", old, new)
                      /\ ConnsOf(w.hall, id) = {new} /\ NumOf(w.hall, id) = 1

\* C13 witness: a pending connection has been replaced in the lobby by a newer
\* connection of its identity, which now holds the lobby entry.
C13_ReplacedInLobby ==
    \E c \in Conn, d \in Conn :
        /\ c # d /\ cookie[c] = cookie[d]
        /\ hist[c].evicted /\ ~hist[c].promoted /\ hist[c].nForced = 1
        /\ ConnsOf(lobby, cookie[d]) = {d}

\* C14: a role-assigned event for an identity without a lobby entry leaves
\* the lobby, the hall, every connection and its listeners unchanged, starts
\* no profile lookup and sends nothing, also when the identity has a hall
\* entry.
C14_UnknownIsDiscarded ==
    \A id \in Identities, role \in Roles :
        NumOf(lobby, id) = 0 => RoleWorld(id[1], id[2], role) = World({})

\* C14 witness: an identity is active in the hall and not pending in the
\* lobby, and a role-assigned event for it, under the other role, changes
\* nothing.
C14_ActiveNotPending ==
    \E id \in Identities, role \in Roles :
        /\ NumOf(lobby, id) = 0
        /\ \E i \in DOMAIN hall : IdOf(hall[i]) = id /\ hall[i][4] # role
        /\ RoleWorld(id[1], id[2], role).hall = hall

\* The entries of a registry that are held by connections other than c.
OthersIn(reg, c) == SelectSeq(reg, LAMBDA e : e[1] # c)

\* C15: the close event of a connection c removes no registry entry held by
\* another connection, in the lobby or in the hall, force-closes no other
\* connection and detaches no other connection's listeners, also when another
\* connection is registered under the identity of c.
C15_CloseTouchesOwnEntryOnly ==
    \A st \in CloseSteps :
        /\ OthersIn(st.w.lobby, st.ws) = OthersIn(lobby, st.ws)
        /\ OthersIn(st.w.hall, st.ws) = OthersIn(hall, st.ws)
        /\ Range(st.w.closes) \subseteq {st.ws}
        /\ \A d \in Conn \ {st.ws} :
              st.w.listeners[d] = listeners[d] /\ st.w.sock[d] = sock[d]

\* C15 witness: an active connection has closed, its close handler has run,
\* and a connection admitted later under the same identity is still
\* registered and open.
C15_LaterAdmissionSurvives ==
    \E c \in Conn, d \in Conn :
        /\ c < d /\ cookie[c] = cookie[d]
        /\ hist[c].closedInHall /\ hist[c].nLeave = 1 /\ ~hist[c].evicted
        /\ d \in WsOf(lobby) \cup WsOf(hall) /\ sock[d] = "open"

\* C16: when a pending connection (in the lobby, not promoted, not evicted)
\* closes, its lobby entry is removed, exactly one sessionLeave, for its
\* identity, is sent to the coordination service, and no participantLeft (no
\* message at all) is sent to any client.
C16_PendingClose ==
    /\ \A st \in CloseSteps :
          st.ws \in WsOf(lobby) =>
              /\ st.ws \notin WsOf(st.w.lobby)
              /\ Len(st.w.lobby) = Len(lobby) - 1
              /\ st.w.phoenix = << <<"sessionLeave", st.id[2], st.id[1]>> >>
              /\ st.w.casts = << >> /\ st.w.ui = << >>
    /\ \A c \in Conn :
          hist[c].closedInLobby =>
              /\ hist[c].nLeave = 1 /\ hist[c].nLeft = 0
              /\ c \notin WsOf(lobby) \cup WsOf(hall)

\* C16 witness: a pending connection has closed while a game-master of its
\* session was active.
C16_PendingHasClosed ==
    \E c \in Conn :
        /\ hist[c].closedInLobby /\ ~hist[c].promoted /\ ~hist[c].evicted
        /\ sock[c] = "closed" /\ hist[c].nLeave = 1
        /\ MastersOf(hall, cookie[c][2]) # {}

\* C17: in every reachable state a connection has the 'message' listener
\* attached if and only if it has a hall entry; so every client message that
\* is handled comes from a connection with a hall entry.
C17_ListenerIffActive ==
    /\ \A c \in Conn : (<<"message", NoId, NoId>> \in listeners[c]) <=> c \in WsOf(hall)
    /\ \A c \in Conn : CanReceive(c) => HallGet(hall, c, NoId, NoId) # NoEntry

\* C17 witness: one connection was active and has lost its hall entry and its
\* listener by eviction, and the connection that replaced it is active and
\* listening.
C17_ListenerMoved ==
    \E c \in Conn, d \in Conn :
        /\ hist[c].promoted /\ hist[c].evicted /\ listeners[c] = {}
        /\ d \in WsOf(hall) /\ CanReceive(d) /\ cookie[c] = cookie[d]
        /\ sock[c] = "closed"

\* The connections a handler run sent participantJoined of an identity to.
JoinedSentTo(w, id) ==
    {w.ui[i][1] : i \in {j \in DOMAIN w.ui :
                            /\ w.ui[j][2][1] = "participantJoined"
                            /\ w.ui[j][2][2] = id[2] /\ w.ui[j][2][3] = id[1]}}

\* C18: the participantJoined of an identity is sent to game-masters only
\* while the identity has a hall entry: once the promoted connection has
\* closed (and participantLeft has been broadcast), the settling of its
\* profile lookup sends no participantJoined.
C18_JoinedOnlyWhileActive ==
    \A id \in Identities, result \in LoadResults :
        LookupPending(id) =>
            (JoinedSentTo(ProfilesWorld(id, result, {}), id) # {} => NumOf(hall, id) > 0)

\* C19: whenever a close handler sends sessionLeave(sessionId, participantId),
\* neither the lobby nor the hall holds an entry of (participantId,
\* sessionId) at that moment.
C19_LeaveOnlyWhenUnregistered ==
    \A st \in CloseSteps :
        \A i \in DOMAIN st.w.phoenix :
            st.w.phoenix[i][1] = "sessionLeave" =>
                LET id == <<st.w.phoenix[i][3], st.w.phoenix[i][2]>>
                IN  NumOf(st.w.lobby, id) = 0 /\ NumOf(st.w.hall, id) = 0

\* C20: no registry entry outlives its connection: once the close event of a
\* connection has been delivered and its authentication has settled (no
\* handler of the connection is left to run), the connection is in neither
\* registry, also when it closed while verifyAuth was pending.
C20_ClosedIsUnregistered ==
    \A c \in Conn :
        (sock[c] = "closed" /\ phase[c] = "done") =>
            c \notin WsOf(lobby) \cup WsOf(hall)

====
